---- MODULE Spec2Model ----
(***************************************************************************)
(* Legal Desk analytics dashboard (src/main.py): the SQLite source         *)
(* tables, the cached fact table built by load_data, and the three pages   *)
(* (overview_page, analysis_page, insights_page) that main() renders on    *)
(* every run of the script.                                                *)
(*                                                                         *)
(* Conventions.  A data frame is a sequence of records (one per row, the   *)
(* record's fields are the columns).  A timestamp is a number of ticks     *)
(* since 2024-01-01 00:00 (a Monday): day d at time-of-day t is            *)
(* d * TicksPerDay + t.  Money is in whole currency units.  A formatted    *)
(* string is a record [fmt |-> the format, ...] holding what the format    *)
(* prints.                                                                 *)
(***************************************************************************)
EXTENDS Integers, Sequences, FiniteSets, TLC

VARIABLES
    customers,    \* table Customers
    orders,       \* table Orders
    order_items,  \* table Order_items
    products,     \* table Products
    cache,        \* st.cache_data entry of load_data: <<>> or <<df>>
    df,           \* main's local df as the rendered page leaves it
    page,         \* the page rendered by the latest run ("none" before any)
    out           \* what the latest run rendered, or the exception it raised

vars == <<customers, orders, order_items, products, cache, df, page, out>>

-----------------------------------------------------------------------------
(* Bounds of the model *)

MaxId == 2        \* customer, order and product identifiers are 1..MaxId
MaxItems == 2     \* at most this many Order_items rows

Ids == 1..MaxId
TimesOfDay == {0, 1}
TicksPerDay == Cardinality(TimesOfDay)
\* Sat 2024-08-31, Sun 2024-09-01, Mon 2024-09-02: one week boundary and
\* one month boundary, on different days.
Days == {243, 244, 245}

Ts(d, t) == d * TicksPerDay + t
OrderDates == {Ts(d, t) : d \in Days, t \in TimesOfDay}
DefaultDate == Ts(243, 0)

\* Sample attribute values, each list in alphabetical order.
FirstNames == <<"Ada", "Bo", "Cy">>
LastNames == <<"Berg", "Holm", "Lund">>
ProductNames == <<"Deed of Trust", "Lease Agreement", "NDA Agreement">>
Categories == <<"Business", "Intellectual Property", "Personal", "Real Estate">>

Pick(list, i) == list[((i - 1) % Len(list)) + 1]

\* Position of a value in its alphabetical list: the order pandas sorts
\* string keys in.
Rank(list, x) == CHOOSE i \in 1..Len(list) : list[i] = x

Min(a, b) == IF a <= b THEN a ELSE b
Max(a, b) == IF a >= b THEN a ELSE b

RECURSIVE SumOver(_, _)
SumOver(f, I) ==
    IF I = {} THEN 0
    ELSE LET i == CHOOSE j \in I : TRUE IN f[i] + SumOver(f, I \ {i})

-----------------------------------------------------------------------------
(* Source tables *)

CustomerRow(c) ==
    [customer_id |-> c, first_name |-> Pick(FirstNames, c),
     last_name |-> Pick(LastNames, c), registration_date |-> Ts(0, 0)]

OrderRow(o, c, date) ==
    [order_id |-> o, customer_id |-> c, order_date |-> date, total_amount |-> 0]

ProductRow(p, name, category) ==
    [product_id |-> p, product_name |-> name, category |-> category, price |-> 10]

ItemRow(i, o, p, q, u) ==
    [order_item_id |-> i, order_id |-> o, product_id |-> p,
     quantity |-> q, unit_price |-> u]

-----------------------------------------------------------------------------
(* load_data *)

\* Mutant of JoinRows: the join without ON O.customer_id = C.customer_id.
JoinRows_NoCustomerKey(C, O, OI, P) ==
    {t \in C \X O \X OI \X P :
        /\ t[3].order_id = t[2].order_id
        /\ t[4].product_id = t[3].product_id}

\* FROM Customers C JOIN Orders O ON .. JOIN Order_items OI ON .. JOIN Products P ON ..
JoinRows(C, O, OI, P) ==
    {t \in C \X O \X OI \X P :
        /\ t[2].customer_id = t[1].customer_id
        /\ t[3].order_id = t[2].order_id
        /\ t[4].product_id = t[3].product_id}

\* The SELECT list.
SelectRow(t) ==
    LET c == t[1] o == t[2] oi == t[3] p == t[4] IN
    [customer_id |-> c.customer_id, first_name |-> c.first_name,
     last_name |-> c.last_name, registration_date |-> c.registration_date,
     order_id |-> o.order_id, order_date |-> o.order_date,
     total_amount |-> o.total_amount,
     product_name |-> p.product_name, category |-> p.category, price |-> p.price,
     quantity |-> oi.quantity, unit_price |-> oi.unit_price,
     item_revenue |-> oi.quantity * oi.unit_price]

\* Rows come in order of the Order_items row, then of the joined rows' keys.
JoinKey(t) ==
    LET r == MaxId + MaxItems + 2 IN
    ((t[3].order_item_id * r + t[1].customer_id) * r + t[2].order_id) * r
        + t[4].product_id

read_sql_query(C, O, OI, P) ==
    LET J == JoinRows(C, O, OI, P)
        pos(t) == 1 + Cardinality({u \in J : JoinKey(u) < JoinKey(t)})
    IN [i \in 1..Cardinality(J) |-> SelectRow(CHOOSE t \in J : pos(t) = i)]

\* Series.dt.dayofweek: Monday = 0 .. Sunday = 6.
dayofweek(ts) == (ts \div TicksPerDay) % 7

\* df["order_date"] - pd.to_timedelta(df["order_date"].dt.dayofweek, unit="d")
week_start(ts) == ts - dayofweek(ts) * TicksPerDay

\* First days of the months of 2024 and of January 2025.
MonthStarts == {0, 31, 60, 91, 121, 152, 182, 213, 244, 274, 305, 335, 366}

\* df["order_date"].dt.to_period("M").dt.to_timestamp()
month_start(ts) ==
    LET d == ts \div TicksPerDay
        m == CHOOSE x \in MonthStarts :
                 x <= d /\ \A y \in MonthStarts : y <= d => y <= x
    IN m * TicksPerDay

WithBuckets(r) ==
    [f \in DOMAIN r \cup {"week_start", "month_start"} |->
        IF f = "week_start" THEN week_start(r.order_date)
        ELSE IF f = "month_start" THEN month_start(r.order_date)
        ELSE r[f]]

\* The body of load_data: what a cache miss computes.
load_data_body(C, O, OI, P) ==
    LET rows == read_sql_query(C, O, OI, P)
    IN [i \in DOMAIN rows |-> WithBuckets(rows[i])]

\* Mutant of load_data: the function without @st.cache_data.
load_data_uncached(entry, C, O, OI, P) == load_data_body(C, O, OI, P)

\* @st.cache_data: the body runs only when no entry is cached.
load_data(entry, C, O, OI, P) ==
    IF entry # <<>> THEN entry[1] ELSE load_data_body(C, O, OI, P)

-----------------------------------------------------------------------------
(* pandas helpers *)

\* Mutant of head: nothing when n exceeds the number of rows.
head_empty_when_short(s, n) ==
    IF n > Len(s) THEN <<>> ELSE SubSeq(s, 1, n)

\* DataFrame.head(n): the first n rows, and for n < 0 all but the last -n rows.
head(s, n) ==
    IF n >= 0 THEN SubSeq(s, 1, Min(n, Len(s)))
    ELSE SubSeq(s, 1, Max(Len(s) + n, 0))

Column(d, col) == {d[i][col] : i \in DOMAIN d}

\* Series.nunique()
nunique(d, col) == Cardinality(Column(d, col))

RowsWhere(d, col, v) == {i \in DOMAIN d : d[i][col] = v}

\* Sum of column col over the rows I of d.
ColSum(d, col, I) == SumOver([i \in DOMAIN d |-> d[i][col]], I)

\* Distinct order_id among the rows I of d.
OrdersIn(d, I) == Cardinality({d[i].order_id : i \in I})

\* sort_values(col, ascending=False) of the groups S of a groupby: larger
\* val[e] first, equal values in the groupby's key order ord[e].
SortDesc(S, val, ord) ==
    LET pos(e) == 1 + Cardinality({f \in S :
                        \/ val[f] > val[e]
                        \/ val[f] = val[e] /\ ord[f] < ord[e]})
    IN [i \in 1..Cardinality(S) |-> CHOOSE e \in S : pos(e) = i]

\* The groups S of a groupby in ascending key order ord[e].
SortAsc(S, ord) ==
    LET pos(e) == 1 + Cardinality({f \in S : ord[f] < ord[e]})
    IN [i \in 1..Cardinality(S) |-> CHOOSE e \in S : pos(e) = i]

\* Fixed-point formatting of the non-negative quotient num / den with no
\* decimals: to the nearest integer, a tie to the even one.
RoundHalfEven(num, den) ==
    LET q == num \div den
        r == num % den
    IN IF 2 * r < den THEN q
       ELSE IF 2 * r > den THEN q + 1
       ELSE IF q % 2 = 0 THEN q ELSE q + 1

FmtInt(n) == [fmt |-> "{:,}", value |-> n]
FmtMoney(fmt, num, den) == [fmt |-> fmt, value |-> RoundHalfEven(num, den)]
Fmt2f(num, den) == [fmt |-> "{:.2f}", hundredths |-> RoundHalfEven(100 * num, den)]

-----------------------------------------------------------------------------
(* calculate_kpis *)

\* df.groupby('order_id')['item_revenue'].sum()
OrderRevenue(d) ==
    [o \in Column(d, "order_id") |->
        ColSum(d, "item_revenue", RowsWhere(d, "order_id", o))]

\* Mutant of avg_order_value: the mean of item_revenue over the rows.
avg_order_value_row_mean(d) ==
    IF Len(d) = 0 THEN [fmt |-> "${:.0f}", value |-> "nan"]
    ELSE [fmt |-> "${:.0f}",
          value |-> RoundHalfEven(SumOver([i \in DOMAIN d |-> d[i].item_revenue],
                                          DOMAIN d), Len(d))]

\* f"${df.groupby('order_id')['item_revenue'].sum().mean():.0f}"
avg_order_value(d) ==
    LET s == OrderRevenue(d) IN
    IF DOMAIN s = {} THEN [fmt |-> "${:.0f}", value |-> "nan"]
    ELSE FmtMoney("${:.0f}", SumOver(s, DOMAIN s), Cardinality(DOMAIN s))

\* f"{df['order_id'].nunique() / df['customer_id'].nunique():.2f}"
orders_per_customer(d) ==
    IF nunique(d, "customer_id") = 0 THEN [status |-> "ZeroDivisionError"]
    ELSE [status |-> "ok",
          text |-> Fmt2f(nunique(d, "order_id"), nunique(d, "customer_id"))]

\* f"{df.groupby('order_id').size().mean():.2f}"
avg_items_per_order(d) ==
    IF nunique(d, "order_id") = 0 THEN [fmt |-> "{:.2f}", hundredths |-> "nan"]
    ELSE Fmt2f(Len(d), nunique(d, "order_id"))

calculate_kpis(d) ==
    LET opc == orders_per_customer(d) IN
    IF opc.status # "ok" THEN [status |-> opc.status]
    ELSE [status |-> "ok",
          values |-> << FmtInt(nunique(d, "customer_id")),
                        FmtInt(nunique(d, "order_id")),
                        FmtMoney("${:,.0f}", ColSum(d, "item_revenue", DOMAIN d), 1),
                        avg_order_value(d),
                        opc.text,
                        avg_items_per_order(d) >>]

-----------------------------------------------------------------------------
(* overview_page *)

date(ts) == ts \div TicksPerDay

overview_page(d) ==
    LET k == calculate_kpis(d) IN
    IF k.status # "ok" THEN [status |-> k.status]
    ELSE LET dates == Column(d, "order_date") IN
         [status |-> "ok",
          kpis |-> k.values,
          date_range |-> << date(CHOOSE x \in dates : \A y \in dates : x <= y),
                            date(CHOOSE x \in dates : \A y \in dates : x >= y) >>,
          total_records |-> FmtInt(Len(d)),
          sample |-> head(d, 5)]

-----------------------------------------------------------------------------
(* analysis_page *)

\* Mutant of weekly: size() for nunique(), item rows counted for orders.
weekly_row_count(d) ==
    LET ws == {d[i].week_start : i \in DOMAIN d}
        pos(w) == 1 + Cardinality({v \in ws : v < w})
    IN [i \in 1..Cardinality(ws) |->
          LET w == CHOOSE v \in ws : pos(v) = i IN
          [week_start |-> w,
           orders |-> Cardinality({j \in DOMAIN d : d[j].week_start = w})]]

\* df.groupby("week_start")["order_id"].nunique().reset_index(name="orders")
weekly(d) ==
    LET S == {[week_start |-> w, orders |-> OrdersIn(d, RowsWhere(d, "week_start", w))] :
                 w \in Column(d, "week_start")}
    IN SortAsc(S, [e \in S |-> e.week_start])

\* df.groupby("month_start")["order_id"].nunique().reset_index(name="orders")
monthly(d) ==
    LET S == {[month_start |-> m, orders |-> OrdersIn(d, RowsWhere(d, "month_start", m))] :
                 m \in Column(d, "month_start")}
    IN SortAsc(S, [e \in S |-> e.month_start])

\* df.groupby("product_name")["order_id"].nunique().reset_index(name="orders")
\*   .sort_values("orders", ascending=False)
prod_freq(d) ==
    LET S == {[product_name |-> n, orders |-> OrdersIn(d, RowsWhere(d, "product_name", n))] :
                 n \in Column(d, "product_name")}
    IN SortDesc(S, [e \in S |-> e.orders],
                [e \in S |-> Rank(ProductNames, e.product_name)])

\* The observation under the product chart (the body of `if not prod_freq.empty`).
top_two_observation(d, pf) ==
    LET top_two == [i \in DOMAIN head(pf, 2) |-> pf[i].product_name] IN
    IF Len(top_two) < 2 THEN [status |-> "IndexError"]
    ELSE [status |-> "ok",
          first |-> top_two[1],
          second |-> top_two[2],
          orders |-> pf[1].orders,
          share |-> [fmt |-> "{:.0f}",
                     value |-> RoundHalfEven(
                         100 * OrdersIn(d, {i \in DOMAIN d :
                                   d[i].product_name \in {top_two[1], top_two[2]}}),
                         nunique(d, "order_id"))]]

\* What analysis_page computes from df alone: the three aggregates and the
\* observation ("skipped" when prod_freq is empty).
analysis_frames(d) ==
    LET pf == prod_freq(d) IN
    [weekly |-> weekly(d), monthly |-> monthly(d), prod_freq |-> pf,
     observation |-> IF Len(pf) = 0 THEN [status |-> "skipped"]
                     ELSE top_two_observation(d, pf)]

\* What analysis_page renders with the slider at top_n, or the exception
\* that ends it (the charts above the observation are rendered by then).
analysis_page(a, top_n) ==
    [status |-> IF a.observation.status = "skipped" THEN "ok"
                ELSE a.observation.status,
     charts |-> [weekly |-> a.weekly, monthly |-> a.monthly,
                 fig |-> head(a.prod_freq, top_n)],
     observation |-> a.observation]

-----------------------------------------------------------------------------
(* insights_page *)

\* df.groupby(["customer_id", "first_name", "last_name"]).agg(...)
\*   .reset_index().sort_values("item_revenue", ascending=False)
cust_val(d) ==
    LET keys == {<<d[i].customer_id, d[i].first_name, d[i].last_name>> : i \in DOMAIN d}
        rows(k) == {i \in DOMAIN d : /\ d[i].customer_id = k[1]
                                     /\ d[i].first_name = k[2]
                                     /\ d[i].last_name = k[3]}
        S == {[customer_id |-> k[1], first_name |-> k[2], last_name |-> k[3],
               item_revenue |-> ColSum(d, "item_revenue", rows(k)),
               orders |-> OrdersIn(d, rows(k)),
               quantity |-> ColSum(d, "quantity", rows(k))] : k \in keys}
    IN SortDesc(S, [e \in S |-> e.item_revenue],
                [e \in S |-> (e.customer_id * (Len(FirstNames) + 1)
                                 + Rank(FirstNames, e.first_name)) * (Len(LastNames) + 1)
                             + Rank(LastNames, e.last_name)])

\* A frame with the column customer_name = first_name + " " + last_name added.
WithCustomerName(f) ==
    [i \in DOMAIN f |->
        [c \in DOMAIN f[i] \cup {"customer_name"} |->
            IF c = "customer_name" THEN <<f[i].first_name, " ", f[i].last_name>>
            ELSE f[i][c]]]

\* Mutant of assign_customer_name: the column assigned on df.
assign_customer_name_to_df(frames) ==
    [frames EXCEPT !.df = [i \in DOMAIN @ |->
        [c \in DOMAIN @[i] \cup {"customer_name"} |->
            IF c = "customer_name" THEN <<@[i].first_name, " ", @[i].last_name>>
            ELSE @[i][c]]]]

\* cust_val["customer_name"] = cust_val["first_name"] + " " + cust_val["last_name"]
\* acting on the frames insights_page holds.
assign_customer_name(frames) ==
    [frames EXCEPT !.cust_val = WithCustomerName(@)]

\* df.groupby("category").agg(...).reset_index()
\*   .sort_values("item_revenue", ascending=False)
category_perf(d) ==
    LET S == {[category |-> c,
               item_revenue |-> ColSum(d, "item_revenue", RowsWhere(d, "category", c)),
               quantity |-> ColSum(d, "quantity", RowsWhere(d, "category", c)),
               orders |-> OrdersIn(d, RowsWhere(d, "category", c))] :
                 c \in Column(d, "category")}
    IN SortDesc(S, [e \in S |-> e.item_revenue],
                [e \in S |-> Rank(Categories, e.category)])

TopCustomers == 10
TopProducts == 10

\* df.groupby(["product_name", "category"]).agg(...).reset_index()
\*   .sort_values("item_revenue", ascending=False).head(10)
top_products(d) ==
    LET keys == {<<d[i].product_name, d[i].category>> : i \in DOMAIN d}
        rows(k) == {i \in DOMAIN d : d[i].product_name = k[1] /\ d[i].category = k[2]}
        S == {[product_name |-> k[1], category |-> k[2],
               item_revenue |-> ColSum(d, "item_revenue", rows(k)),
               quantity |-> ColSum(d, "quantity", rows(k))] : k \in keys}
    IN head(SortDesc(S, [e \in S |-> e.item_revenue],
                     [e \in S |-> Rank(ProductNames, e.product_name)
                                      * (Len(Categories) + 1)
                                  + Rank(Categories, e.category)]),
            TopProducts)

\* The frames after insights_page, and what it rendered.
insights_page(d) ==
    LET frames == assign_customer_name([df |-> d, cust_val |-> cust_val(d)]) IN
    [df |-> frames.df,
     out |-> [status |-> "ok",
              customers |-> head(frames.cust_val, TopCustomers),
              categories |-> category_perf(d),
              products |-> top_products(d)]]

-----------------------------------------------------------------------------
(* main: one run of the script per page selection or widget change *)

SliderMin == 5
SliderMax == 30

\* page == "Overview"
RunOverview ==
    LET d == load_data(cache, customers, orders, order_items, products) IN
    /\ cache' = <<d>>
    /\ page' = "Overview"
    /\ out' = overview_page(d)
    /\ df' = d
    /\ UNCHANGED <<customers, orders, order_items, products>>

\* page == "Required Analysis", the slider at one of the positions in TopNs
RunAnalysis(TopNs) ==
    LET d == load_data(cache, customers, orders, order_items, products)
        a == analysis_frames(d)
    IN /\ cache' = <<d>>
       /\ page' = "Required Analysis"
       /\ \E top_n \in TopNs : out' = analysis_page(a, top_n)
       /\ df' = d
       /\ UNCHANGED <<customers, orders, order_items, products>>

\* page == "Additional Analysis"
RunInsights ==
    LET d == load_data(cache, customers, orders, order_items, products)
        r == insights_page(d)
    IN /\ cache' = <<d>>
       /\ page' = "Additional Analysis"
       /\ out' = r.out
       /\ df' = r.df
       /\ UNCHANGED <<customers, orders, order_items, products>>

\* The cache of load_data is cleared (st.cache_data.clear(), or "Clear cache"
\* in the app menu).
ClearCache ==
    /\ cache # <<>>
    /\ cache' = <<>>
    /\ UNCHANGED <<customers, orders, order_items, products, df, page, out>>

\* The database file changes between two runs: an order line is removed.
DeleteOrderItem ==
    /\ \E r \in order_items : order_items' = order_items \ {r}
    /\ UNCHANGED <<customers, orders, products, cache, df, page, out>>

-----------------------------------------------------------------------------
(* Initial states: a database with unique identifiers, nothing cached *)

\* The tables of at most MaxItems order lines, each line with
\* <<order_id, product_id, quantity, unit_price>> from the set lines.
ItemTables(lines) ==
    UNION {{{ItemRow(i, f[i][1], f[i][2], f[i][3], f[i][4]) : i \in 1..n} :
                f \in [1..n -> lines]} : n \in 0..MaxItems}

\* <<quantity, unit_price>> of the order lines when they vary.
KpiLines == {<<1, 5>>, <<1, 10>>, <<2, 10>>}

AllCustomers == {CustomerRow(c) : c \in Ids}
AllProducts == {ProductRow(p, Pick(ProductNames, p), Pick(Categories, p)) : p \in Ids}

Fresh ==
    /\ cache = <<>>
    /\ df = <<>>
    /\ page = "none"
    /\ out = [status |-> "none"]

\* Referential structure varies: missing customers, orders and products.
InitJoin ==
    /\ customers \in {{CustomerRow(c) : c \in 1..n} : n \in {0, MaxId - 1, MaxId}}
    /\ orders \in {{OrderRow(o, o, DefaultDate) : o \in 1..n} : n \in {0, MaxId - 1, MaxId}}
    /\ products \in {{r \in AllProducts : r.product_id <= n} : n \in {0, MaxId - 1, MaxId}}
    /\ order_items \in ItemTables({1, MaxId} \X {1, MaxId} \X {1} \X {10})
    /\ Fresh

\* Order timestamps vary.
InitTime ==
    /\ customers = AllCustomers
    /\ orders \in {{OrderRow(o, 1, IF o \in {1, MaxId} THEN f[o] ELSE DefaultDate) : o \in Ids} :
                     f \in [{1, MaxId} -> OrderDates]}
    /\ products = AllProducts
    /\ order_items \in ItemTables({1, MaxId} \X {1} \X {1} \X {10})
    /\ Fresh

\* The order lines' quantities and prices and the orders' customers vary.
InitKpi ==
    /\ customers = AllCustomers
    /\ orders \in {{OrderRow(o, 1, DefaultDate) : o \in Ids},
                   {OrderRow(o, o, DefaultDate) : o \in Ids}}
    /\ products = AllProducts
    /\ order_items \in ItemTables({<<o, 1, l[1], l[2]>> : o \in {1, MaxId}, l \in KpiLines})
    /\ Fresh

\* Product names and categories vary: products may share a name.
InitProducts ==
    /\ customers = AllCustomers
    /\ orders = {OrderRow(o, 1, DefaultDate) : o \in Ids}
    /\ products \in
         {{IF r.product_id = MaxId THEN ProductRow(MaxId, n, c) ELSE r : r \in AllProducts} :
            n \in {ProductNames[1], Pick(ProductNames, MaxId)},
            c \in {Categories[1], Pick(Categories, MaxId)}}
    /\ order_items \in ItemTables({1, MaxId} \X {1, MaxId} \X {1} \X {10})
    /\ Fresh

Init == InitJoin \/ InitTime \/ InitKpi \/ InitProducts

Next ==
    \/ RunOverview
    \/ RunAnalysis(SliderMin..SliderMax)
    \/ RunInsights
    \/ ClearCache
    \/ DeleteOrderItem

Spec == Init /\ [][Next]_vars

SpecJoin == InitJoin /\ [][Next]_vars
SpecTime == InitTime /\ [][Next]_vars
SpecKpi == InitKpi /\ [][Next]_vars
SpecProducts == InitProducts /\ [][Next]_vars

\* The product ranking of analysis_page as an operation of its parameter N,
\* applied to frames of several products with N <= 0 (values the slider of
\* the page does not take).
NonPositiveTopNs == {-1, 0}
InitTopN ==
    /\ customers = AllCustomers
    /\ orders \in {{OrderRow(o, 1, IF o \in {1, MaxId} THEN f[o] ELSE DefaultDate) : o \in Ids} :
                     f \in [{1, MaxId} -> OrderDates]}
    /\ products = AllProducts
    /\ order_items \in {t \in ItemTables({1, MaxId} \X {1, MaxId} \X {1} \X {10}) :
                          {r.product_id : r \in t} = {1, MaxId}}
    /\ Fresh
NextTopN == RunAnalysis(NonPositiveTopNs)
SpecTopN == InitTopN /\ [][NextTopN]_vars

\* One run of main, whatever the page.
RunStep == RunOverview \/ RunAnalysis(SliderMin..SliderMax) \/ RunInsights

-----------------------------------------------------------------------------
(* Properties *)

KpiIsZero(k) ==
    IF "hundredths" \in DOMAIN k THEN k.hundredths = 0 ELSE k.value = 0

\* C1: for an empty fact table calculate_kpis returns, without raising, six
\* KPI fields that are all 0 (orders_per_customer being 0 by convention).
C1_EmptyTableKpisAreZero ==
    (page = "Overview" /\ Len(df) = 0) =>
        /\ out.status = "ok"
        /\ \A i \in 1..6 : KpiIsZero(out.kpis[i])

\* The order lines whose order, order's customer and product all exist.
ValidItems ==
    {oi \in order_items :
        /\ \E o \in orders :
              /\ o.order_id = oi.order_id
              /\ \E c \in customers : c.customer_id = o.customer_id
        /\ \E p \in products : p.product_id = oi.product_id}

\* The fact an order line stands for, from its own order and product.
FactOf(oi) ==
    LET o == CHOOSE x \in orders : x.order_id = oi.order_id
        p == CHOOSE x \in products : x.product_id = oi.product_id
    IN <<o.customer_id, o.order_id, o.order_date, p.product_name, p.category,
         oi.quantity, oi.unit_price, oi.quantity * oi.unit_price>>

FactIn(r) ==
    <<r.customer_id, r.order_id, r.order_date, r.product_name, r.category,
      r.quantity, r.unit_price, r.item_revenue>>

\* C2: the frame a load builds holds exactly one row per order line whose
\* order, order's customer and product exist, and no row for any other
\* order line: each fact occurs as often as there are such lines with it.
C2_OneFactRowPerValidItem ==
    [][(cache = <<>> /\ cache' # <<>>) =>
        LET f == cache'[1] IN
        /\ Len(f) = Cardinality(ValidItems)
        /\ \A oi \in ValidItems :
              Cardinality({i \in DOMAIN f : FactIn(f[i]) = FactOf(oi)})
                = Cardinality({x \in ValidItems : FactOf(x) = FactOf(oi)})]_vars

\* C2 witness: a loaded frame of one row from a database with two order
\* lines (one dropped by the join) and an order with no line.
C2_Witness ==
    /\ cache # <<>>
    /\ Len(cache[1]) = 1
    /\ Cardinality(ValidItems) = 1
    /\ Cardinality(order_items) = 2
    /\ \E o \in orders : \A oi \in order_items : oi.order_id # o.order_id

\* C3: week_start is the date (midnight) of the Monday on or before the
\* order date, so rows whose order dates fall in the same Monday-to-Sunday
\* week have the same week_start whatever their times of day.
C3_WeekStartIsMondayDate ==
    cache # <<>> =>
        LET f == cache[1] IN
        /\ \A i \in DOMAIN f :
              f[i].week_start
                = (date(f[i].order_date) - (date(f[i].order_date) % 7)) * TicksPerDay
        /\ \A i, j \in DOMAIN f :
              (date(f[i].order_date) \div 7 = date(f[j].order_date) \div 7)
                  => f[i].week_start = f[j].week_start

\* C4: in the weekly aggregate every distinct order_id of the frame is in
\* exactly one week bucket, each bucket counts its distinct orders, and the
\* counts add up to the number of distinct orders.
C4_EachOrderInOneWeek ==
    page = "Required Analysis" =>
        LET w == out.charts.weekly IN
        /\ \A o \in Column(df, "order_id") :
              Cardinality({i \in DOMAIN w : \E j \in DOMAIN df :
                              /\ df[j].order_id = o
                              /\ df[j].week_start = w[i].week_start}) = 1
        /\ \A i \in DOMAIN w :
              w[i].orders = Cardinality({df[j].order_id : j \in
                                RowsWhere(df, "week_start", w[i].week_start)})
        /\ SumOver([i \in DOMAIN w |-> w[i].orders], DOMAIN w) = nunique(df, "order_id")

\* C4 witness: an order of two item rows, counted once.
C4_Witness ==
    /\ page = "Required Analysis"
    /\ Len(df) = 2
    /\ nunique(df, "order_id") = 1
    /\ Len(out.charts.weekly) = 1
    /\ out.charts.weekly[1].orders = 1

\* Revenue of every row, from its quantity and unit price.
TotalOfOrderSums(d) ==
    SumOver([o \in Column(d, "order_id") |->
                SumOver([i \in DOMAIN d |-> d[i].quantity * d[i].unit_price],
                        RowsWhere(d, "order_id", o))],
            Column(d, "order_id"))

IsTwoItemExample(d) ==
    /\ Len(d) = 2
    /\ nunique(d, "order_id") = 1
    /\ {<<d[i].quantity, d[i].unit_price>> : i \in DOMAIN d} = {<<2, 10>>, <<1, 5>>}

\* C5 as stated: avg_order_value is the sum of the per-order revenue sums
\* divided by the number of distinct orders.
C5_AvgOrderValueIsExactQuotient ==
    (page = "Overview" /\ out.status = "ok") =>
        out.kpis[4].value * nunique(df, "order_id") = TotalOfOrderSums(df)

\* C5 amended: avg_order_value is that quotient rounded to the nearest whole
\* unit (a tie to the even one); total_orders is the number of distinct
\* orders; one order with items (2, 10) and (1, 5) gives 25 and 1.
C5_AvgOrderValueIsRoundedGroupMean ==
    (page = "Overview" /\ out.status = "ok") =>
        /\ out.kpis[4].value
             = RoundHalfEven(TotalOfOrderSums(df), nunique(df, "order_id"))
        /\ out.kpis[2].value = nunique(df, "order_id")
        /\ IsTwoItemExample(df) => out.kpis[4].value = 25 /\ out.kpis[2].value = 1

\* C5 witness: the two-item order of the example.
C5_Witness ==
    /\ page = "Overview"
    /\ out.status = "ok"
    /\ IsTwoItemExample(df)
    /\ out.kpis[4].value = 25

C9_PagesLeaveFrameUnchanged ==
    [][RunStep =>
        /\ df' = cache'[1]
        /\ (cache # <<>> /\ page' = page) => out' = out]_vars

\* C9 witness: insights_page has run on a frame with rows.
C9_Witness ==
    /\ page = "Additional Analysis"
    /\ Len(df) >= 1
    /\ cache # <<>>
    /\ df = cache[1]
    /\ Len(out.customers) >= 1

\* C10: on a non-empty frame the top-two observation of analysis_page
\* completes without raising.
C10_TopTwoObservationCompletes ==
    (page = "Required Analysis" /\ Len(df) > 0) => out.status = "ok"

====
